---- MODULE Spec2Model ----
(***************************************************************************)
(* WhatsappBulkSender: the bulk outbound-messaging engine of               *)
(* envios-masivos-whatsapp.                                                *)
(*                                                                         *)
(* Two variants of the class exist in the repository and both are          *)
(* modelled; the variable `variant` says which one was constructed:        *)
(*   "index" : the class of src/index.js (buttons, header/body params)     *)
(*   "bulk"  : the class of src/src/whatsapp-bulk-sender.js                *)
(*                                                                         *)
(* JavaScript runs the class on one thread: a step of the model is one     *)
(* task of the event loop (a call, a timer callback, the arrival of a      *)
(* transport response) together with every promise continuation it makes   *)
(* runnable.  Time is counted in half milliseconds, so that messageDelay   *)
(* (1000 / 80 = 12.5 ms) is the integer 25.                                *)
(***************************************************************************)
EXTENDS Integers, Sequences, FiniteSets, TLC

(***************************************************************************)
(* Bounds of the model.                                                    *)
(***************************************************************************)
\* Longest recipient list handed to one sendBulkMessages call; also the
\* number of recipients one sender processes over all its runs.
MaxRecipients == 4
\* sendBulkMessages calls made on one sender.
MaxRuns == 2
\* The source fixes the batch size to 50 (const batchSize = 50); the model
\* runs the same loop with small batches, so that a list of MaxRecipients
\* recipients spans several batches and a batch boundary is crossed.
batchSize == 2
\* Data lines of a CSV file handed to loadRecipientsFromCSV.
MaxRows == 2
\* How many times in a row a phone function is applied to its own result.
MaxApplications == 2

\* How late a due timer's callback may run, in half ms: at the timer's
\* deadline, or 1 ms or 2 ms after it.
MaxLate == 4
\* How many times the event loop's clock may tick while batch.map starts the
\* callbacks of one batch.
MaxTicks == 1

(***************************************************************************)
(* Program constants.                                                      *)
(***************************************************************************)
maxMessagesPerSecond == 80
\* this.messageDelay = 1000 / this.maxMessagesPerSecond, in half ms.
messageDelay == (1000 * 2) \div maxMessagesPerSecond
\* await this.sleep(1000) between two batches, in ms.
interBatchPause == 1000
\* x milliseconds in the model's unit of time.
Ms(x) == 2 * x

Min(a, b) == IF a < b THEN a ELSE b
Max(a, b) == IF a > b THEN a ELSE b
\* One millisecond, the unit of the event loop's clock and of its timers.
Millisecond == Ms(1)

\* The event loop's clock at time t: it counts whole milliseconds.
LoopNow(t) == Millisecond * (t \div Millisecond)

\* The delay a timer is set for by setTimeout(callback, ms): the fraction of
\* a millisecond is dropped, and a delay below 1 ms is 1 ms.
TimerDelay(ms) == Max(Millisecond, Millisecond * (ms \div Millisecond))

\* this.sleep(ms), called at time t (ms in the model's unit of time): the
\* time from which the timer it sets is due.  The timer is started at the
\* loop's clock and is due once that clock has counted the timer's delay,
\* which can be in less than ms: sleep(12.5 ms) called half a millisecond
\* after the clock ticked is due 11.5 ms later.
sleep(t, ms) == LoopNow(t) + TimerDelay(ms)

(***************************************************************************)
(* JavaScript values.  A string is the sequence of its characters.         *)
(***************************************************************************)
Undefined == [t |-> "undefined", s |-> <<>>]
Null == [t |-> "null", s |-> <<>>]
False == [t |-> "boolean", s |-> <<>>]
Str(chars) == [t |-> "string", s |-> chars]
\* A number, with the digits String(v) gives it.
Num(chars) == [t |-> "number", s |-> chars]
IsString(v) == v.t = "string"

\* String(v): the text JavaScript gives a value.
ToStringChars(v) ==
  CASE v.t \in {"string", "number"} -> v.s
    [] v.t = "undefined" -> <<"u", "n", "d", "e", "f", "i", "n", "e", "d">>
    [] v.t = "null" -> <<"n", "u", "l", "l">>

\* A character is written as itself; one that a string of this module
\* cannot hold is written as its code point, "\\u2028".
\* U+000B (line tabulation), U+00A0 (no-break space), U+1680 (ogham space
\* mark) and U+FEFF (byte order mark).
LineTabulation == ""
NoBreakSpace == " "
OghamSpaceMark == " "
ByteOrderMark == "﻿"

\* White space (\s of a regular expression, and what trim() removes): tab,
\* line feed, line tabulation, form feed, carriage return, space, no-break
\* space, ogham space mark, U+2000 to U+200A, line and paragraph separator,
\* U+202F, U+205F, U+3000 and the byte order mark.
WhiteSpace ==
  {"\t", "\n", LineTabulation, "\f", "\r", " ", NoBreakSpace, OghamSpaceMark,
   "\\u2000", "\\u2001", "\\u2002", "\\u2003", "\\u2004", "\\u2005",
   "\\u2006", "\\u2007", "\\u2008", "\\u2009", "\\u200A", "\\u2028",
   "\\u2029", "\\u202F", "\\u205F", "\\u3000",
   ByteOrderMark}

\* The characters the regular expression /[\s\-+()]/g removes.
CleanedChars == WhiteSpace \cup {"-", "+", "(", ")"}

\* s.replace(/[\s\-+()]/g, '')
Clean(chars) == SelectSeq(chars, LAMBDA c : c \notin CleanedChars)

\* s.startsWith(prefix)
StartsWith(chars, prefix) ==
  /\ Len(chars) >= Len(prefix)
  /\ SubSeq(chars, 1, Len(prefix)) = prefix

Prefix57 == <<"5", "7">>

\* An always-true test of the prefix in formatPhoneNumber of src/index.js.
formatPhoneNumberIndexAlwaysPrefixes(phone) ==
  Prefix57 \o Clean(ToStringChars(phone))

\* formatPhoneNumber of src/index.js; the result is a string's characters.
formatPhoneNumberIndex(phone) ==
  LET cleaned == Clean(ToStringChars(phone))
  IN  IF StartsWith(cleaned, Prefix57) THEN cleaned
      ELSE IF Len(cleaned) = 10 /\ cleaned[1] = "3" THEN Prefix57 \o cleaned
      ELSE cleaned

\* formatPhoneNumber of src/src/whatsapp-bulk-sender.js, for a string phone
\* (phone.replace raises a TypeError on anything else: see PhoneThrows).
formatPhoneNumberBulk(phone) ==
  LET cleaned == Clean(phone.s)
  IN  IF (~StartsWith(cleaned, Prefix57) \/ ~StartsWith(cleaned, <<"+">> \o Prefix57))
         \/ Len(cleaned) = 10
      THEN Prefix57 \o cleaned
      ELSE cleaned

\* validateAndFormatPhone(phone) of src/index.js: the normalized number, or
\* false.  (!phone is true of undefined, null and the empty string.)
validateAndFormatPhone(phone) ==
  IF ~IsString(phone) \/ \A p \in 1..Len(phone.s) : phone.s[p] \in WhiteSpace
  THEN False
  ELSE LET cleaned == Clean(phone.s)
       IN  IF StartsWith(cleaned, Prefix57) /\ Len(cleaned) = 12 /\ cleaned[3] = "3"
           THEN Str(cleaned)
           ELSE IF ~StartsWith(cleaned, Prefix57) /\ Len(cleaned) = 10
                   /\ cleaned[1] = "3"
                THEN Str(Prefix57 \o cleaned)
                ELSE False

\* Whether this.formatPhoneNumber(to) raises.
PhoneThrows(v, phone) == v = "bulk" /\ ~IsString(phone)

formatPhoneNumber(v, phone) ==
  IF v = "index" THEN formatPhoneNumberIndex(phone) ELSE formatPhoneNumberBulk(phone)

(***************************************************************************)
(* Template parameters and buttons.                                        *)
(*                                                                         *)
(* A parameter list is undefined, null, or an array; an element of an      *)
(* array is null, a plain string ("text") or an object tagged with its     *)
(* typeTemplate ("header", "body").  A button list is undefined, null or   *)
(* an array whose elements are null or an object ("titled", "untitled").   *)
(***************************************************************************)
Arr(elems) == [t |-> "array", s |-> elems]
IsArray(v) == v.t = "array"

\* A default parameter value (templateParams = [], buttons = []) replaces
\* undefined, and nothing else.
DefaultArray(v) == IF v.t = "undefined" THEN Arr(<<>>) ELSE v

\* templateParams.length, or param.typeTemplate of an element, raises a
\* TypeError on null.
ParamsThrowIndex(params) ==
  \/ params.t = "null"
  \/ IsArray(params) /\ \E p \in 1..Len(params.s) : params.s[p] = "null"

ParamsThrowBulk(params) == params.t = "null"

\* buildButtonComponent: b.title raises a TypeError on a null element.
ButtonsThrow(buttons) ==
  IsArray(buttons) /\ \E p \in 1..Len(buttons.s) : buttons.s[p] = "null"

\* buildButtonComponent(buttons): null, or the button component with one
\* reply per button, ids btn_0, btn_1, ... and the default title
\* "Button <idx + 1>" for an untitled button.
buildButtonComponent(buttons) ==
  IF ~IsArray(buttons) \/ Len(buttons.s) = 0 THEN Null
  ELSE [t |-> "component",
        s |-> [p \in 1..Len(buttons.s) |->
                 [id |-> p - 1,
                  title |-> IF buttons.s[p] = "titled" THEN "b.title"
                            ELSE "Button idx+1"]]]

\* addHeaderParams then addBodyParams: the components pushed, each with the
\* number of parameters it carries.
ParamComponentsIndex(params) ==
  IF Len(params.s) > 0
  THEN << [type |-> "header",
           parameters |-> Len(SelectSeq(params.s, LAMBDA e : e = "header"))],
          [type |-> "body",
           parameters |-> Len(SelectSeq(params.s, LAMBDA e : e = "body"))] >>
  ELSE <<>>

ParamComponentsBulk(params) ==
  IF Len(params.s) > 0
  THEN << [type |-> "body", parameters |-> Len(params.s)] >>
  ELSE <<>>

(***************************************************************************)
(* sendMessage.                                                            *)
(***************************************************************************)
\* The errors raised inside the try block.
TypeError == [name |-> "TypeError", response |-> "none"]
\* axios rejects with an error that carries the response (with a body:
\* "data", with an empty one: "empty") or none (a network error).
AxiosError(resp) == [name |-> "AxiosError", response |-> resp]

\* What the transport can do with one request.
Behaviours ==
  {"ok", "nodata", "nomessages", "emptymessages", "noid",
   "http", "httpempty", "network"}

\* The first part of the try block, up to the request: the payload when it
\* is built, the error when building it raises.
BuildPayload(v, to, templateParams, buttons) ==
  LET params == DefaultArray(templateParams)
      btns == DefaultArray(buttons)
  IN  IF v = "index"
      THEN IF ParamsThrowIndex(params) \/ ButtonsThrow(btns)
           THEN [threw |-> TRUE, error |-> TypeError]
           ELSE [threw |-> FALSE,
                 payload |->
                   [to |-> formatPhoneNumberIndex(to),
                    components |->
                      ParamComponentsIndex(params)
                      \o (IF buildButtonComponent(btns) = Null THEN <<>>
                          ELSE << [type |-> "button",
                                   parameters |-> Len(btns.s)] >>)]]
      ELSE IF PhoneThrows(v, to) \/ ParamsThrowBulk(params)
           THEN [threw |-> TRUE, error |-> TypeError]
           ELSE [threw |-> FALSE,
                 payload |->
                   [to |-> formatPhoneNumberBulk(to),
                    components |-> ParamComponentsBulk(params)]]

\* await axios.post(...) and response.data?.messages[0].id: the message id
\* read from the response, or the error raised.
ReadResponse(behaviour) ==
  CASE behaviour = "ok" -> [threw |-> FALSE, messageId |-> "wamid"]
    [] behaviour \in {"nodata", "noid"} ->
         [threw |-> FALSE, messageId |-> "undefined"]
    [] behaviour \in {"nomessages", "emptymessages"} ->
         [threw |-> TRUE, error |-> TypeError]
    [] behaviour = "http" -> [threw |-> TRUE, error |-> AxiosError("data")]
    [] behaviour = "httpempty" -> [threw |-> TRUE, error |-> AxiosError("empty")]
    [] behaviour = "network" -> [threw |-> TRUE, error |-> AxiosError("none")]

\* error.response?.data || error.message
ErrorDetail(error) ==
  IF error.response = "data" THEN "response.data" ELSE "error.message"

\* A settled sendMessage promise: fulfilled with a result, or rejected.
Fulfilled(result) == [rejected |-> FALSE, value |-> result]
Rejected(error) ==
  [rejected |-> TRUE,
   value |-> [success |-> FALSE, to |-> Undefined, messageId |-> "absent",
              error |-> ErrorDetail(error)]]

\* return { success: true, messageId: ..., to: to }
ReturnSuccess(to, messageId) ==
  Fulfilled([success |-> TRUE, to |-> to, messageId |-> messageId,
             error |-> "absent"])

\* A sendMessage whose errors escape: what the code would do without its
\* catch block.
CatchErrorRethrows(to, error) == Rejected(error)

\* The catch block: return { success: false, to: to, error: ... }
CatchError(to, error) ==
  Fulfilled([success |-> FALSE, to |-> to, messageId |-> "absent",
             error |-> ErrorDetail(error)])

\* sendMessage up to the request: "inflight" with the payload sent, or
\* "settled" when building the request raised.
sendMessageBegin(v, to, templateParams, buttons) ==
  LET built == BuildPayload(v, to, templateParams, buttons)
  IN  IF built.threw
      THEN [state |-> "settled", settlement |-> CatchError(to, built.error)]
      ELSE [state |-> "inflight", payload |-> built.payload]

\* sendMessage from the transport's answer on.
sendMessageEnd(to, behaviour) ==
  LET read == ReadResponse(behaviour)
  IN  IF read.threw THEN CatchError(to, read.error)
      ELSE ReturnSuccess(to, read.messageId)

(***************************************************************************)
(* The state of one sender.                                                *)
(***************************************************************************)
VARIABLES
  variant,     \* which class was constructed: "index" or "bulk"
  stats,       \* this.stats: [total, sent, failed, errors]
  phase,       \* of the last sendBulkMessages call: "idle" (none yet),
               \* "running", "returned", "rejected"
  recipients,  \* the recipients argument of that call (positions 1..n)
  binder,      \* its getTemplateParams argument: "absent" or "given"
  buttons,     \* its buttons argument
  i,           \* the loop variable i: the offset of the current batch
  task,        \* for each list index 0..n-1, the async callback of
               \* batch.map for that recipient (see NewTask)
  pauseAt,     \* the deadline of the pending sleep(1000), or -1
  results,     \* the local variable results
  returned,    \* the value the call returned (when phase = "returned")
  now,         \* the time, in half ms, counted from the last tick of the
               \* loop's clock before the call was made or, later, before
               \* the latest Promise.all resolved; while no timer is
               \* pending, only its place within the millisecond
  runs,        \* sendBulkMessages calls made so far
  served,      \* recipients handed to the sender so far, over all calls
  order,       \* history: the list indices in the order their dispatch completed
  lastSent,    \* history: the time at which the latest request was issued,
               \* kept while a callback has yet to issue its own; else -1
  resolvedAt,  \* history: the time, as now counts it, at which the latest
               \* Promise.all of the call resolved, kept until a request
               \* is issued after it; else -1
  call,        \* a direct sendMessage call (see SpecSend)
  report,      \* the report object the latest saveReport call returned
  summary,     \* what the latest showSummary call printed
  normalized,  \* a direct call of formatPhoneNumber or
               \* validateAndFormatPhone (see SpecPhone)
  loaded       \* a loadRecipientsFromCSV call (see SpecLoad)

vars ==
  << variant, stats, phase, recipients, binder, buttons, i, task, pauseAt,
     results, returned, now, runs, served, order, lastSent, resolvedAt, call, report,
     summary, normalized, loaded >>

\* The number of recipients of the current call.
n == Len(recipients)

NoResult ==
  [success |-> FALSE, to |-> Undefined, messageId |-> "absent", error |-> "absent"]
NoPayload == [to |-> <<>>, components |-> <<>>]

\* A callback not yet created: its batch has not started.
Unscheduled ==
  [st |-> "unscheduled", delay |-> -1, wakeAt |-> -1, calls |-> 0, sends |-> 0,
   transport |-> "none", payload |-> NoPayload, result |-> NoResult]

\* A stagger counted from the batch's own start: index * messageDelay.
NewTaskBatchRelative(prev, offset, index, t) ==
  [prev EXCEPT !.st = "sleeping",
               !.delay = index * messageDelay,
               !.wakeAt = sleep(t, index * messageDelay)]

\* The callback of the recipient at batch index `index` of the batch at
\* offset `offset`, created at time t and suspended in
\* await this.sleep((i + index) * this.messageDelay).
\* st is "sleeping", then "inflight" (awaiting axios.post), then "done"
\* (returned its result) or "threw" (its promise rejected); calls counts its
\* sendMessage calls, sends its transport requests, and transport is what
\* the transport did with its request.
NewTask(prev, offset, index, t) ==
  [prev EXCEPT !.st = "sleeping",
               !.delay = (offset + index) * messageDelay,
               !.wakeAt = sleep(t, (offset + index) * messageDelay)]

\* A slice that takes one recipient too many: slice(i, i + batchSize + 1).
BatchIdxOverlapping(offset, len) ==
  offset .. Min(offset + batchSize, len - 1)

\* recipients.slice(i, i + batchSize), as list indices.
BatchIdx(offset, len) == offset .. (Min(offset + batchSize, len) - 1)

\* batch.map(async ...): every callback of the batch runs up to its sleep.
\* The callback of batch index j calls sleep once the loop's clock has
\* ticked ticks[j] times since batch.map was called at time t: each callback
\* sets its own timer, and the clock is read anew for each.
StartBatch(tk, offset, len, t, ticks) ==
  [k \in DOMAIN tk |->
     IF k \in BatchIdx(offset, len)
     THEN NewTask(tk[k], offset, k - offset,
                  LoopNow(t) + Millisecond * ticks[k - offset])
     ELSE tk[k]]

\* The ticks of the clock the callbacks of a batch may see: none for the
\* first, and never fewer for a later callback than for an earlier one.
ClockTicks(offset, len) ==
  LET last == Cardinality(BatchIdx(offset, len)) - 1
  IN  {ticks \in [0..last -> 0..MaxTicks] :
         /\ ticks[0] = 0
         /\ \A j \in 1..last : ticks[j - 1] <= ticks[j]}

\* The time when batch.map, called at time t, has started its callbacks.
MapDone(offset, len, t, ticks) ==
  LET last == Cardinality(BatchIdx(offset, len)) - 1
  IN  IF ticks[last] = 0 THEN t ELSE LoopNow(t) + Millisecond * ticks[last]

Live(tk) == {k \in DOMAIN tk : tk[k].st \in {"sleeping", "inflight"}}

\* The constructor's this.stats.
InitialStats == [total |-> 0, sent |-> 0, failed |-> 0, errors |-> <<>>]

\* A fold that counts a failure without logging it.
FoldOutcomeDropsError(st, recipient, result) ==
  IF result.success
  THEN [st EXCEPT !.sent = @ + 1]
  ELSE [st EXCEPT !.failed = @ + 1]

\* The if/else that folds one result into this.stats.
FoldOutcome(st, recipient, result) ==
  IF result.success
  THEN [st EXCEPT !.sent = @ + 1]
  ELSE [st EXCEPT !.failed = @ + 1,
                  !.errors = Append(@, [phone |-> recipient.phone,
                                        error |-> result.error])]

(***************************************************************************)
(* The inputs of the model.                                                *)
(***************************************************************************)
Digits == <<"0", "1", "2", "3", "4", "5", "6", "7", "8", "9">>
Digit(d) == Digits[(d % 10) + 1]

\* The phone of the recipient at position p: a 12-digit prefixed mobile
\* number at odd positions, a 10-digit local one at even positions, the
\* last digit telling the positions apart.
PhoneOf(p) ==
  IF p % 2 = 1
  THEN Str(<<"5", "7", "3", "0", "0", "1", "2", "3", "4", "5", "6", Digit(p)>>)
  ELSE Str(<<"3", "1", "0", "1", "2", "3", "4", "5", "6", Digit(p)>>)

\* A list of len recipients; the one at position bad (if any) has no phone
\* field, as a row read from a CSV without a "phone" column has none.
RecipientList(len, bad) ==
  [p \in 1..len |-> [phone |-> IF p = bad THEN Undefined ELSE PhoneOf(p)]]

\* The lists tried: every length with all phones present, and one recipient
\* whose phone is missing.
RecipientLists ==
  {RecipientList(len, 0) : len \in 0..MaxRecipients} \cup {RecipientList(1, 1)}

\* What getTemplateParams(recipient) does for one recipient.
BinderReturns == {"params", "null", "throws"}

ParamsOf(v, ret) ==
  CASE ret = "null" -> Null
    [] ret = "params" ->
         IF v = "index" THEN Arr(<<"header", "body">>) ELSE Arr(<<"text">>)

\* The buttons argument of a run: one button (the bulk variant takes none).
RunButtons(v) == IF v = "index" THEN Arr(<<"titled">>) ELSE Undefined

\* What the transport does with a request of a run.
RunBehaviours == {"ok", "http"}

NoCall == [state |-> "none"]
NoReport == [built |-> FALSE, writing |-> FALSE]
NoSummary == [shown |-> FALSE]
NoNormalized == [fn |-> "none"]
NoLoaded == [done |-> FALSE]

Init ==
  /\ variant \in {"index", "bulk"}
  /\ stats = InitialStats
  /\ phase = "idle"
  /\ recipients = <<>>
  /\ binder = "absent"
  /\ buttons = Undefined
  /\ i = 0
  /\ task = <<>>
  /\ pauseAt = -1
  /\ results = <<>>
  /\ returned = <<>>
  /\ now = 0
  /\ runs = 0
  /\ served = 0
  /\ order = <<>>
  /\ lastSent = -1
  /\ resolvedAt = -1
  /\ call = NoCall
  /\ report = NoReport
  /\ summary = NoSummary
  /\ normalized = NoNormalized
  /\ loaded = NoLoaded

(***************************************************************************)
(* sendBulkMessages.                                                       *)
(***************************************************************************)
\* The batch's results in the order in which its callbacks completed.
batchResultsAsCompleted(tk, offset, len) ==
  LET ord == SelectSeq(order', LAMBDA k : k \in BatchIdx(offset, len))
  IN  [p \in 1..Len(ord) |-> tk[ord[p]].result]

\* results.push(...batchResults): the results of the batch's callbacks in
\* the order of batchPromise, which is the order of the batch.
batchResults(tk, offset, len) ==
  [p \in 1..Cardinality(BatchIdx(offset, len)) |-> tk[offset + p - 1].result]

\* The call itself, made at time t after the loop's clock last ticked:
\* this.stats.total is set, and the loop runs up to its first await.  An empty list returns at once; otherwise the first batch's
\* callbacks are created and each is left in its sleep.
sendBulkMessages(list, getTemplateParams, btns, t) ==
  /\ phase # "running"
  /\ Live(task) = {}
  /\ runs < MaxRuns
  /\ served + Len(list) <= MaxRecipients
  /\ runs' = runs + 1
  /\ served' = served + Len(list)
  /\ recipients' = list
  /\ binder' = getTemplateParams
  /\ buttons' = btns
  /\ stats' = [stats EXCEPT !.total = Len(list)]
  /\ results' = <<>>
  /\ i' = 0
  /\ order' = <<>>
  /\ lastSent' = -1
  /\ resolvedAt' = -1
  /\ pauseAt' = -1
  /\ IF 0 < Len(list)
     THEN /\ \E ticks \in ClockTicks(0, Len(list)) :
               /\ task' = StartBatch([k \in 0..(Len(list) - 1) |-> Unscheduled],
                                     0, Len(list), t, ticks)
               /\ now' = MapDone(0, Len(list), t, ticks)
          /\ phase' = "running"
          /\ returned' = <<>>
     ELSE /\ task' = <<>>
          /\ now' = t
          /\ phase' = "returned"
          /\ returned' = <<>>
  /\ UNCHANGED <<variant, call, report,
                 summary, normalized, loaded>>

\* A Promise.allSettled in the place of Promise.all: the loop goes on once
\* every callback of the batch has returned or thrown.
BatchResolvesOnSettled(tk) ==
  /\ phase \in {"running", "rejected"}
  /\ \A k \in BatchIdx(i, n) : tk[k].st \in {"done", "threw"}

\* A Promise.all over the callbacks of every recipient of the list, those
\* of the batches not yet started included.
BatchResolvesOnWholeList(tk) ==
  phase = "running" /\ \A k \in DOMAIN tk : tk[k].st = "done"

\* A loop that goes on as soon as one callback of the batch is done.
BatchResolvesOnFirst(tk) ==
  phase = "running" /\ \E k \in BatchIdx(i, n) : tk[k].st = "done"

\* Whether the loop's `await Promise.all(batchPromise)` resolves once the
\* callbacks are as in tk.
BatchResolves(tk) ==
  phase = "running" /\ \A k \in BatchIdx(i, n) : tk[k].st = "done"

\* A loop that sleeps 1000 ms after every batch, the last one included,
\* before it looks for a next batch.
AfterBatchAlwaysPauses(tk, t) ==
  IF BatchResolves(tk)
  THEN /\ results' = results \o batchResults(tk, i, n)
       /\ now' = t
       /\ resolvedAt' = t
       /\ lastSent' = -1
       /\ pauseAt' = sleep(t, Ms(interBatchPause))
       /\ phase' = "running"
       /\ returned' = returned
  ELSE UNCHANGED <<results, now, resolvedAt, lastSent, pauseAt, phase, returned>>

\* What follows the await: nothing while a callback of the batch is
\* unfinished (or when the call has already rejected); else the batch's
\* results are pushed, and the loop either sleeps 1000 ms before the next
\* batch or ends and returns results.  The batch resolves t half ms after
\* the loop's clock last ticked, and time is counted anew from that tick.
AfterBatch(tk, t) ==
  IF BatchResolves(tk)
  THEN /\ results' = results \o batchResults(tk, i, n)
       /\ now' = t
       /\ resolvedAt' = t
       /\ lastSent' = -1
       /\ IF i + batchSize < n
          THEN /\ pauseAt' = sleep(t, Ms(interBatchPause))
               /\ phase' = "running"
               /\ returned' = returned
          ELSE /\ pauseAt' = -1
               /\ phase' = "returned"
               /\ returned' = results \o batchResults(tk, i, n)
  ELSE UNCHANGED <<results, now, resolvedAt, lastSent, pauseAt, phase, returned>>

\* The callback of index k goes on after `await this.sendMessage(...)`
\* settled: a rejection ends the callback, rejects Promise.all and with it
\* the call; a result is folded into this.stats and returned.  All this
\* happens t half ms after the loop's clock last ticked.
AfterSend(k, tk, settlement, t) ==
  IF settlement.rejected
  THEN /\ task' = [tk EXCEPT ![k].st = "threw"]
       /\ phase' = IF phase = "running" THEN "rejected" ELSE phase
       /\ UNCHANGED <<stats, order, results, now, resolvedAt, lastSent, pauseAt,
                      returned>>
  ELSE LET done == [tk EXCEPT ![k].st = "done", ![k].result = settlement.value]
       IN  /\ task' = done
           /\ stats' = FoldOutcome(stats, recipients[k + 1], settlement.value)
           /\ order' = Append(order, k)
           /\ AfterBatch(done, t)

\* A batch whose dispatches are awaited one after the other: a timer's
\* callback goes on only once no earlier request is in flight.
FirstTimerSerialized(k) ==
  /\ task[k].st = "sleeping"
  /\ now >= task[k].wakeAt
  /\ \A j \in DOMAIN task :
       /\ task[j].st = "sleeping" => task[j].wakeAt >= task[k].wakeAt
       /\ j < k => task[j].st # "inflight"

\* Timers fire in the order of their deadlines.
FirstTimer(k) ==
  /\ task[k].st = "sleeping"
  /\ now >= task[k].wakeAt
  /\ \A j \in DOMAIN task :
       task[j].st = "sleeping" => task[j].wakeAt >= task[k].wakeAt

\* A timer other than that of callback k is pending.
OtherTimerPending(k) ==
  \E j \in DOMAIN task : j # k /\ task[j].st = "sleeping"

\* The time once the timer of callback k is served.  The program reads the
\* time only to set a timer and to serve one: once none is pending, only
\* where the time lies within the millisecond of the loop's clock is kept.
TimerServed(k) == IF OtherTimerPending(k) THEN now ELSE now % Millisecond

\* The sleep of callback k is over: the parameters are bound and
\* sendMessage is called, which sends the request or fails building it.
TimerFires(k) ==
  /\ FirstTimer(k)
  /\ \E ret \in (IF binder = "given" THEN BinderReturns ELSE {"absent"}) :
       IF ret = "throws"
       THEN /\ task' = [task EXCEPT ![k].st = "threw", ![k].wakeAt = -1]
            /\ phase' = IF phase = "running" THEN "rejected" ELSE phase
            /\ now' = TimerServed(k)
            /\ UNCHANGED <<stats, order, results, resolvedAt, lastSent,
                           pauseAt, returned>>
       ELSE LET params == IF ret = "absent" THEN Arr(<<>>) ELSE ParamsOf(variant, ret)
                begun == sendMessageBegin(variant, recipients[k + 1].phone,
                                          params, buttons)
                called == [task EXCEPT ![k].calls = @ + 1, ![k].wakeAt = -1]
            IN  IF begun.state = "inflight"
                THEN /\ task' = [called EXCEPT ![k].st = "inflight",
                                               ![k].sends = @ + 1,
                                               ![k].payload = begun.payload]
                     /\ lastSent' = IF OtherTimerPending(k) THEN now ELSE -1
                     /\ now' = TimerServed(k)
                     /\ resolvedAt' = -1
                     /\ UNCHANGED <<stats, order, results, pauseAt, phase,
                                    returned>>
                ELSE AfterSend(k, called, begun.settlement, now % Millisecond)
  /\ UNCHANGED <<variant, recipients, binder, buttons, i, runs, served, call, report,
                 summary, normalized, loaded>>

\* The transport answers the request of callback k, at some time from now
\* on: t half ms after the loop's clock last ticked.  How long the answer
\* took is not bounded, and nothing in the program measures it.
TransportSettles(k, behaviour, t) ==
  /\ task[k].st = "inflight"
  /\ AfterSend(k, [task EXCEPT ![k].transport = behaviour],
               sendMessageEnd(recipients[k + 1].phone, behaviour), t)
  /\ UNCHANGED <<variant, recipients, binder, buttons, i, runs, served, call, report,
                 summary, normalized, loaded>>

\* The sleep(1000) between two batches is over: i += batchSize, and the next
\* batch's callbacks are created.
PauseElapses ==
  /\ phase = "running"
  /\ pauseAt >= 0
  /\ now >= pauseAt
  /\ pauseAt' = -1
  /\ i' = i + batchSize
  /\ \E ticks \in ClockTicks(i + batchSize, n) :
       /\ task' = StartBatch(task, i + batchSize, n, now, ticks)
       /\ now' = MapDone(i + batchSize, n, now, ticks)
  /\ UNCHANGED <<variant, stats, phase, recipients, binder, buttons, results,
                 returned, runs, served, order, lastSent, resolvedAt, call, report,
                 summary, normalized, loaded>>

(***************************************************************************)
(* Time.                                                                   *)
(***************************************************************************)
\* The times within a millisecond of the loop's clock at which a call is
\* made.
CallTimes == 0..(Millisecond - 1)

\* The deadlines of the pending timers.
Deadlines ==
  {task[k].wakeAt : k \in {j \in DOMAIN task : task[j].st = "sleeping"}}
  \cup (IF phase = "running" /\ pauseAt >= 0 THEN {pauseAt} ELSE {})

MinOf(S) == CHOOSE x \in S : \A y \in S : x <= y

\* Time passes while a timer is pending.  While no timer is due it passes up
\* to the next deadline (what happens in between, the transport's answers,
\* does not depend on the time).  Once a timer is due, its callback runs
\* then or a whole number of milliseconds later, up to MaxLate after the
\* deadline: the loop serves its timers by a clock of whole milliseconds.
\* While no timer is pending the program does not read the time, and of
\* now only its place within the millisecond is kept (TimerServed).
AdvanceTime ==
  /\ Deadlines # {}
  /\ IF \A d \in Deadlines : d > now
     THEN now' = MinOf(Deadlines)
     ELSE /\ \A d \in Deadlines : now + Millisecond <= d + MaxLate
          /\ now' = now + Millisecond
  /\ UNCHANGED <<variant, stats, phase, recipients, binder, buttons, i, task,
                 pauseAt, results, returned, runs, served, order, lastSent, resolvedAt,
                 call, report, summary, normalized, loaded>>

Next ==
  \/ \E list \in RecipientLists, g \in {"absent", "given"}, t \in CallTimes :
       sendBulkMessages(list, g, RunButtons(variant), t)
  \/ \E k \in DOMAIN task : TimerFires(k)
  \/ \E k \in DOMAIN task, behaviour \in RunBehaviours, t \in CallTimes :
       TransportSettles(k, behaviour, t)
  \/ PauseElapses
  \/ AdvanceTime

Spec == Init /\ [][Next]_vars

\* What the event loop does by itself once a call is made: a due timer's
\* callback runs, a transport call settles (with a response or an error),
\* time passes.
Progress ==
  \/ \E k \in DOMAIN task : TimerFires(k)
  \/ \E k \in DOMAIN task, behaviour \in RunBehaviours, t \in CallTimes :
       TransportSettles(k, behaviour, t)
  \/ PauseElapses
  \/ AdvanceTime

\* One run on a newly constructed sender (the statistics a sender keeps
\* from earlier runs take no part in the control of a run).
NextLive ==
  \/ \E list \in RecipientLists, g \in {"absent", "given"}, t \in CallTimes :
       runs = 0 /\ sendBulkMessages(list, g, RunButtons(variant), t)
  \/ Progress

\* One sendBulkMessages call on a newly constructed sender, with every
\* timing of its timers and of its transport calls.
SpecRun == Init /\ [][NextLive]_vars

\* The runs in which every timer fires and every transport call settles.
SpecLive == Init /\ [][NextLive]_vars /\ WF_vars(Progress)

(***************************************************************************)
(* A direct call of sendMessage, outside any run.                          *)
(***************************************************************************)
SendPhones ==
  {Undefined, Null,
   Str(<<"5", "7", "3", "0", "0", "1", "2", "3", "4", "5", "6", "7">>),
   Str(<<"3", "0", "0", "1", "2", "3", "4", "5", "6", "7">>),
   Str(<<"+", "5", "7", " ", "3", "0", "0", "-", "1", "2", "3", "4", "5", "6", "7">>),
   Str(<<"9", "9", "9", "9", "9">>)}

SendParams ==
  {Undefined, Null, Arr(<<>>), Arr(<<"header", "body">>), Arr(<<"text">>),
   Arr(<<"body", "null">>)}

SendButtons ==
  {Undefined, Null, Arr(<<>>), Arr(<<"titled", "untitled">>), Arr(<<"null">>)}

NoSettlement == Fulfilled(NoResult)

\* sendMessage(to, templateName, templateParams, languageCode, btns) is
\* called: the request is sent, or the call settles at once.
CallSendMessage(to, templateParams, btns) ==
  /\ phase = "idle"
  /\ call.state = "none"
  /\ LET begun == sendMessageBegin(variant, to, templateParams, btns)
     IN  call' = [state |-> begun.state,
                  to |-> to,
                  templateParams |-> templateParams,
                  buttons |-> btns,
                  transport |-> "none",
                  payload |-> IF begun.state = "inflight" THEN begun.payload
                              ELSE NoPayload,
                  settlement |-> IF begun.state = "inflight" THEN NoSettlement
                                 ELSE begun.settlement]
  /\ UNCHANGED <<variant, stats, phase, recipients, binder, buttons, i, task,
                 pauseAt, results, returned, now, runs, served, order, lastSent,
                 resolvedAt, report, summary, normalized, loaded>>

\* The transport answers the request of the direct call.
ResponseArrives(behaviour) ==
  /\ call.state = "inflight"
  /\ call' = [call EXCEPT !.state = "settled",
                          !.transport = behaviour,
                          !.settlement = sendMessageEnd(call.to, behaviour)]
  /\ UNCHANGED <<variant, stats, phase, recipients, binder, buttons, i, task,
                 pauseAt, results, returned, now, runs, served, order, lastSent,
                 resolvedAt, report, summary, normalized, loaded>>

NextSend ==
  \/ \E to \in SendPhones, ps \in SendParams, bs \in SendButtons :
       CallSendMessage(to, ps, bs)
  \/ \E behaviour \in Behaviours : ResponseArrives(behaviour)

SpecSend == Init /\ [][NextSend]_vars

(***************************************************************************)
(* saveReport and showSummary, called once a run returned as the main      *)
(* script does (await sendBulkMessages, then saveReport(results),          *)
(* showSummary()).                                                         *)
(***************************************************************************)
\* The value of report.stats, read now: the report's stats property is the
\* object this.stats itself (stats: this.stats), so it reads as this.stats
\* does.
ReportStats(rep) == IF rep.stats = "this.stats" THEN stats ELSE rep.stats

\* saveReport(res), up to its await: the report object is made, and its
\* JSON text, which fixes the statistics as they stand, is handed to
\* fs.writeFile.
saveReport(res) ==
  /\ phase = "returned"
  /\ ~report.writing
  /\ report' = [built |-> FALSE,
                writing |-> TRUE,
                stats |-> "this.stats",
                details |-> res,
                file |-> [stats |-> stats, details |-> res]]
  /\ UNCHANGED <<variant, stats, phase, recipients, binder, buttons, i, task,
                 pauseAt, results, returned, now, runs, served, order,
                 lastSent, resolvedAt, call, summary, normalized, loaded>>

\* fs.writeFile is done: saveReport goes on after its await and returns the
\* report object, whatever was called on the sender in between.
saveReportReturns ==
  /\ report.writing
  /\ report' = [report EXCEPT !.built = TRUE, !.writing = FALSE]
  /\ UNCHANGED <<variant, stats, phase, recipients, binder, buttons, i, task,
                 pauseAt, results, returned, now, runs, served, order,
                 lastSent, resolvedAt, call, summary, normalized, loaded>>

\* The significant bits of a JavaScript number (a double).
SignificantBits == 53

\* x in binary, the most significant bit first (no bit at all for 0).
RECURSIVE Binary(_)
Binary(x) == IF x = 0 THEN <<>> ELSE Append(Binary(x \div 2), x % 2)

\* The number whose binary digits are bits.
RECURSIVE FromBinary(_)
FromBinary(bits) ==
  IF bits = <<>>
  THEN 0
  ELSE 2 * FromBinary(SubSeq(bits, 1, Len(bits) - 1)) + bits[Len(bits)]

\* bits plus one.
RECURSIVE PlusOne(_)
PlusOne(bits) ==
  IF bits = <<>>
  THEN <<1>>
  ELSE IF bits[Len(bits)] = 0
       THEN [bits EXCEPT ![Len(bits)] = 1]
       ELSE Append(PlusOne(SubSeq(bits, 1, Len(bits) - 1)), 0)

\* bits times c, from the least significant bit on.
RECURSIVE TimesCarry(_, _, _)
TimesCarry(bits, c, carry) ==
  IF bits = <<>>
  THEN Binary(carry)
  ELSE IF (bits[Len(bits)] * c + carry) % 2 = 0
       THEN Append(TimesCarry(SubSeq(bits, 1, Len(bits) - 1), c,
                              (bits[Len(bits)] * c + carry) \div 2), 0)
       ELSE Append(TimesCarry(SubSeq(bits, 1, Len(bits) - 1), c,
                              (bits[Len(bits)] * c + carry) \div 2), 1)

\* The next count binary digits of r / den (r < den).
RECURSIVE DivideBits(_, _, _)
DivideBits(r, den, count) ==
  IF count = 0
  THEN <<>>
  ELSE IF 2 * r >= den
       THEN <<1>> \o DivideBits(2 * r - den, den, count - 1)
       ELSE <<0>> \o DivideBits(2 * r, den, count - 1)

\* What is left of r / den (r < den) after count binary digits.
RECURSIVE DivideRest(_, _, _)
DivideRest(r, den, count) ==
  IF count = 0
  THEN r
  ELSE IF 2 * r >= den
       THEN DivideRest(2 * r - den, den, count - 1)
       ELSE DivideRest(2 * r, den, count - 1)

\* 2 to the power k.
RECURSIVE Pow2(_)
Pow2(k) == IF k = 0 THEN 1 ELSE 2 * Pow2(k - 1)

\* The least k with x * 2^k >= total.
RECURSIVE ShiftUp(_, _)
ShiftUp(x, total) == IF x >= total THEN 0 ELSE 1 + ShiftUp(2 * x, total)

\* The double nearest to a number above zero given by its binary digits
\* (the first of them 1 and worth 2^e; exact tells that no digit other than
\* zero follows them): m holds its SignificantBits digits.  A number
\* halfway between two doubles goes to the one whose last digit is 0.
RoundToDouble(bits, e, exact) ==
  IF Len(bits) <= SignificantBits
  THEN [m |-> bits \o [q \in 1..(SignificantBits - Len(bits)) |-> 0], e |-> e]
  ELSE LET m == SubSeq(bits, 1, SignificantBits)
           rest == SubSeq(bits, SignificantBits + 2, Len(bits))
           more == ~exact \/ \E q \in 1..Len(rest) : rest[q] = 1
           up == bits[SignificantBits + 1] = 1 /\ (more \/ m[SignificantBits] = 1)
           next == PlusOne(m)
       IN  IF ~up
           THEN [m |-> m, e |-> e]
           ELSE IF Len(next) > SignificantBits
                THEN [m |-> SubSeq(next, 1, SignificantBits), e |-> e + 1]
                ELSE [m |-> next, e |-> e]

\* x / total as a double, for x and total above zero.
Divide(x, total) ==
  LET whole == Len(Binary(x \div total))
      e == IF x >= total THEN whole - 1 ELSE 0 - ShiftUp(x, total)
      num == IF x >= total THEN x ELSE x * Pow2(0 - e)
      den == IF x >= total THEN total * Pow2(e) ELSE total
  IN  RoundToDouble(<<1>> \o DivideBits(num - den, den, SignificantBits), e,
                    DivideRest(num - den, den, SignificantBits) = 0)

\* d * c as a double, for a double d and a whole number c above zero.
Times(d, c) ==
  LET product == TimesCarry(d.m, c, 0)
  IN  RoundToDouble(product, d.e + Len(product) - Len(d.m), TRUE)

\* d.toFixed(2) for a double d above zero, in hundredths: the whole number
\* h for which h / 100 is nearest to d, the larger of two such numbers.
ToFixed2(d) ==
  LET product == TimesCarry(d.m, 100, 0)
      fraction == Len(d.m) - 1 - d.e
      whole == Len(product) - fraction
  IN  IF fraction <= 0
      THEN FromBinary(product) * Pow2(0 - fraction)
      ELSE IF whole < 0
           THEN 0
           ELSE FromBinary(SubSeq(product, 1, whole)) + product[whole + 1]

\* ((x / total) * 100).toFixed(2): NaN for 0 / 0, Infinity for x / 0 with
\* x > 0, else the percentage, computed in doubles, rounded to hundredths.
Percentage(x, total) ==
  IF total = 0
  THEN [text |-> IF x = 0 THEN "NaN" ELSE "Infinity", divisor |-> total]
  ELSE [text |-> "number",
        hundredths |-> IF x = 0 THEN 0 ELSE ToFixed2(Times(Divide(x, total), 100)),
        divisor |-> total]

\* The number of error records showSummary lists: errors.slice(0, 10).
maxErrorsListed == 10

\* showSummary(): the totals with their percentages and the first errors.
showSummary ==
  /\ phase # "running"
  /\ summary' = [shown |-> TRUE,
                 total |-> stats.total,
                 sent |-> Percentage(stats.sent, stats.total),
                 failed |-> Percentage(stats.failed, stats.total),
                 errorsListed |-> Min(Len(stats.errors), maxErrorsListed),
                 more |-> Max(Len(stats.errors) - maxErrorsListed, 0)]
  /\ UNCHANGED <<variant, stats, phase, recipients, binder, buttons, i, task,
                 pauseAt, results, returned, now, runs, served, order,
                 lastSent, resolvedAt, call, report, normalized, loaded>>

\* Runs, and reports made of what they returned.
NextReport ==
  \/ Next
  \/ saveReport(returned)
  \/ saveReportReturns

\* Runs, and summaries of the statistics printed between them.
NextSummary ==
  \/ Next
  \/ showSummary

SpecSummary == Init /\ [][NextSummary]_vars

SpecReport == Init /\ [][NextReport]_vars

(***************************************************************************)
(* formatPhoneNumber and validateAndFormatPhone, called directly.          *)
(***************************************************************************)
TestDigits == {"0", "5", "7"}

\* Ten-digit local mobile numbers: 3a0123456b.
LocalNumbers ==
  {<<"3", a>> \o <<"0", "1", "2", "3", "4", "5", "6">> \o <<b>> :
     a, b \in TestDigits}

\* The same numbers with the country prefix.
PrefixedNumbers == {Prefix57 \o x : x \in LocalNumbers}

\* The same numbers as people write them: "+57 3a0-123456b",
\* "(3a0) 123456b", and pasted with a byte order mark, a line feed, a
\* no-break space, a form feed and a line separator among the digits.
WrittenNumbers ==
  {<<"+">> \o Prefix57 \o <<" ">> \o SubSeq(x, 1, 3) \o <<"-">> \o SubSeq(x, 4, 10) :
     x \in LocalNumbers}
  \cup {<<"(">> \o SubSeq(x, 1, 3) \o <<")", " ">> \o SubSeq(x, 4, 10) :
          x \in LocalNumbers}
  \cup {<<ByteOrderMark>> \o SubSeq(x, 1, 3) \o <<"\n">> \o SubSeq(x, 4, 6)
          \o <<NoBreakSpace>> \o SubSeq(x, 7, 10) \o <<"\f", "\\u2028">> :
          x \in LocalNumbers}

\* Texts that are no mobile number: too short, too long, a wrong leading
\* digit, a wrong digit after the prefix, letters, nothing.
MalformedNumbers ==
  {<<"9", "9", "9", "9", "9">>,
   <<"3", "0", "0", "1", "2", "3", "4", "5", "6">>,
   <<"3", "0", "0", "1", "2", "3", "4", "5", "6", "7", "8">>,
   <<"4", "0", "0", "1", "2", "3", "4", "5", "6", "7">>,
   <<"5", "7", "0", "1", "2", "3", "4", "5", "6", "7">>,
   <<"5", "7", "4", "0", "0", "1", "2", "3", "4", "5", "6", "7">>,
   <<"5", "7", "3", "0", "0", "1", "2", "3", "4", "5", "6">>,
   <<"1", "2", "3", "0", "0", "1", "2", "3", "4", "5", "6", "7">>,
   <<"5", "7", "5", "7", "3", "0", "0", "1", "2", "3", "4", "5", "6", "7">>,
   <<"3", "0", "0", "1", "2", "A", "4", "5", "6", "7">>,
   <<"5", "7", "3", "0", "0", "A", "B", "C", "4", "5", "6", "7">>,
   <<"3", "0", "0", ".", "2", "3", "4", "5", "6", "7">>,
   <<"a", "b", "c">>,
   <<" ", "\t">>,
   <<"-">>,
   <<>>}

\* The arguments tried: strings, and values that are no string.
PhoneInputs ==
  {Str(x) : x \in LocalNumbers \cup PrefixedNumbers \cup WrittenNumbers
                  \cup MalformedNumbers}
  \cup {Undefined, Null, Num(<<"3", "0", "0", "1", "2", "3", "4", "5", "6", "7">>)}

\* The outcome of a call that raised.
Raised == [t |-> "raised", s |-> <<>>]

\* this.formatPhoneNumber(phone), as a value.
formatPhoneNumberCall(v, phone) ==
  IF PhoneThrows(v, phone) THEN Raised ELSE Str(formatPhoneNumber(v, phone))

\* The function of the given name applied to phone.
ApplyPhoneFunction(v, fn, phone) ==
  IF fn = "formatPhoneNumber" THEN formatPhoneNumberCall(v, phone)
  ELSE validateAndFormatPhone(phone)

\* A direct call of one of the two functions (validateAndFormatPhone is a
\* method of the class of src/index.js only).  `first` is the argument the
\* chain of applications started from.
CallPhoneFunction(fn, phone) ==
  /\ phase = "idle"
  /\ fn = "validateAndFormatPhone" => variant = "index"
  /\ normalized' = [fn |-> fn, arg |-> phone,
                    result |-> ApplyPhoneFunction(variant, fn, phone),
                    applications |-> 1, first |-> phone]
  /\ UNCHANGED <<variant, stats, phase, recipients, binder, buttons, i, task,
                 pauseAt, results, returned, now, runs, served, order,
                 lastSent, resolvedAt, call, report, summary, loaded>>

\* The same function is applied to the value it returned.
ApplyAgain ==
  /\ normalized.fn # "none"
  /\ normalized.result # Raised
  /\ normalized.applications < MaxApplications
  /\ normalized' = [normalized EXCEPT
                      !.arg = normalized.result,
                      !.result = ApplyPhoneFunction(variant, normalized.fn,
                                                    normalized.result),
                      !.applications = @ + 1]
  /\ UNCHANGED <<variant, stats, phase, recipients, binder, buttons, i, task,
                 pauseAt, results, returned, now, runs, served, order,
                 lastSent, resolvedAt, call, report, summary, loaded>>

NextPhone ==
  \/ \E fn \in {"formatPhoneNumber", "validateAndFormatPhone"}, phone \in PhoneInputs :
       CallPhoneFunction(fn, phone)
  \/ ApplyAgain

SpecPhone == Init /\ [][NextPhone]_vars

\* Send-time normalization of an address accepted at ingestion: phone has
\* passed validateAndFormatPhone of src/index.js, and the sender (of either
\* class) applies its formatPhoneNumber to the address that call returned.
FormatAccepted(phone) ==
  /\ phase = "idle"
  /\ validateAndFormatPhone(phone) # False
  /\ normalized' = [fn |-> "formatPhoneNumber",
                    arg |-> validateAndFormatPhone(phone),
                    result |-> formatPhoneNumberCall(
                                 variant, validateAndFormatPhone(phone)),
                    applications |-> 1,
                    first |-> phone]
  /\ UNCHANGED <<variant, stats, phase, recipients, binder, buttons, i, task,
                 pauseAt, results, returned, now, runs, served, order,
                 lastSent, resolvedAt, call, report, summary, loaded>>

NextAccepted ==
  \/ NextPhone
  \/ \E phone \in PhoneInputs : FormatAccepted(phone)

SpecAccepted == Init /\ [][NextAccepted]_vars

(***************************************************************************)
(* loadRecipientsFromCSV.                                                  *)
(*                                                                         *)
(* A file is unreadable, or the sequence of its lines (content.split of    *)
(* the line feed); a line is the sequence of its cells (line.split of the  *)
(* comma), a cell the sequence of its characters.                          *)
(***************************************************************************)
RECURSIVE TrimStart(_)
TrimStart(chars) ==
  IF chars # <<>> /\ Head(chars) \in WhiteSpace THEN TrimStart(Tail(chars))
  ELSE chars

RECURSIVE TrimEnd(_)
TrimEnd(chars) ==
  IF chars # <<>> /\ chars[Len(chars)] \in WhiteSpace
  THEN TrimEnd(SubSeq(chars, 1, Len(chars) - 1))
  ELSE chars

\* s.trim()
Trim(chars) == TrimEnd(TrimStart(chars))

\* line.trim() is the empty string: the line has no comma and nothing but
\* white space.
IsBlankLine(line) == Len(line) = 1 /\ Trim(line[1]) = <<>>

\* line.split(',').map(v => v.trim())
TrimmedCells(line) == [p \in 1..Len(line) |-> Trim(line[p])]

\* headers.indexOf(name): the first position (from 0) of name, or -1.
IndexOf(headers, name) ==
  IF \E p \in 1..Len(headers) : headers[p] = name
  THEN (CHOOSE p \in 1..Len(headers) :
          headers[p] = name /\ \A q \in 1..(p - 1) : headers[q] # name) - 1
  ELSE -1

Telefono == <<"T", "E", "L", "E", "F", "O", "N", "O">>
PhoneHeader == <<"p", "h", "o", "n", "e">>

\* The for loop of src/index.js over the data lines: a row that has the
\* TELEFONO cell and whose phone validates is pushed with the formatted
\* phone; any other row is left out.
RECURSIVE LoadedRows(_, _)
LoadedRows(lines, telefonoIndex) ==
  IF lines = <<>> THEN <<>>
  ELSE LET values == TrimmedCells(Head(lines))
           rest == LoadedRows(Tail(lines), telefonoIndex)
       IN  IF Len(values) > telefonoIndex
           THEN LET formattedPhone ==
                      validateAndFormatPhone(Str(values[telefonoIndex + 1]))
                IN  IF formattedPhone # False
                    THEN <<[phone |-> formattedPhone]>> \o rest
                    ELSE rest
           ELSE rest

\* loadRecipientsFromCSV of src/index.js: [] when the file cannot be read,
\* has no line (lines[0].split raises) or has no TELEFONO column.
loadRecipientsFromCSVIndex(file) ==
  IF ~file.readable THEN <<>>
  ELSE LET lines == SelectSeq(file.lines, LAMBDA line : ~IsBlankLine(line))
       IN  IF lines = <<>> THEN <<>>
           ELSE LET telefonoIndex == IndexOf(TrimmedCells(lines[1]), Telefono)
                IN  IF telefonoIndex = -1 THEN <<>>
                    ELSE LoadedRows(Tail(lines), telefonoIndex)

\* loadRecipientsFromCSV of src/src/whatsapp-bulk-sender.js: one recipient
\* per data line, with one property per header; the model keeps the
\* property sendBulkMessages reads, recipient.phone (undefined when no
\* header is "phone" or the line has no such cell; a repeated header keeps
\* the last cell).
loadRecipientsFromCSVBulk(file) ==
  IF ~file.readable THEN <<>>
  ELSE LET lines == SelectSeq(file.lines, LAMBDA line : ~IsBlankLine(line))
       IN  IF lines = <<>> THEN <<>>
           ELSE LET headers == TrimmedCells(lines[1])
                    cols == {p \in 1..Len(headers) : headers[p] = PhoneHeader}
                    col == IF cols = {} THEN 0
                           ELSE CHOOSE p \in cols : \A q \in cols : q <= p
                IN  [r \in 1..(Len(lines) - 1) |->
                       LET values == TrimmedCells(lines[r + 1])
                       IN  [phone |-> IF col = 0 \/ col > Len(values) THEN Undefined
                                      ELSE Str(values[col])]]

\* The header lines tried.
CsvHeaders ==
  {<<Telefono>>,
   <<<<ByteOrderMark>> \o Telefono>>,
   <<<<"N", "O", "M", "B", "R", "E">>, <<" ">> \o Telefono \o <<"\r">>>>,
   <<PhoneHeader>>}

\* The phone cells tried: local, prefixed, written with signs and spaces,
\* written with a line tabulation, a no-break space and a form feed,
\* too short, with a letter (10 and 12 characters), empty.
CsvPhones ==
  {<<"3", "0", "0", "1", "2", "3", "4", "5", "6", "7">>,
   <<"5", "7", "3", "1", "0", "1", "2", "3", "4", "5", "6", "7">>,
   <<" ", "+", "5", "7", " ", "3", "0", "0", "-", "1", "2", "3", "4", "5", "6", "7", "\r">>,
   <<LineTabulation, "3", "0", "0", NoBreakSpace, "1", "2", "3", "4", "5", "6", "7", "\f">>,
   <<"9", "9", "9", "9", "9">>,
   <<"3", "0", "0", "1", "2", "A", "4", "5", "6", "7">>,
   <<"5", "7", "3", "0", "0", "A", "B", "C", "4", "5", "6", "7">>,
   <<>>}

\* The data lines tried under a header of `width` cells: the phone in the
\* last cell, a line that is too short to have it (when width > 1), a
\* blank line.
CsvLines(width) ==
  {[p \in 1..width |-> IF p = width THEN phone ELSE <<"A", "n", "a">>] :
     phone \in CsvPhones}
  \cup (IF width > 1 THEN {<<<<"A", "n", "a">>>>} ELSE {})
  \cup {<<<<" ">>>>}

RECURSIVE SeqsUpTo(_, _)
\* The sequences of at most len elements of S.
SeqsUpTo(S, len) ==
  IF len = 0 THEN {<<>>}
  ELSE LET shorter == SeqsUpTo(S, len - 1)
       IN  shorter \cup {Append(sq, x) : sq \in shorter, x \in S}

\* The files tried: unreadable, empty, or a header and up to MaxRows lines.
CsvFiles ==
  {[readable |-> FALSE, lines |-> <<>>], [readable |-> TRUE, lines |-> <<>>]}
  \cup {[readable |-> TRUE, lines |-> <<header>> \o rows] :
          header \in CsvHeaders,
          rows \in UNION {SeqsUpTo(CsvLines(w), MaxRows) : w \in {1, 2}}}

\* await sender.loadRecipientsFromCSV(filePath), the file being as given
\* (the call reads nothing of the sender and leaves it as it was: the
\* model follows one call).
loadRecipientsFromCSV(file) ==
  /\ phase = "idle"
  /\ ~loaded.done
  /\ loaded' = [done |-> TRUE,
                file |-> file,
                recipients |-> IF variant = "index"
                               THEN loadRecipientsFromCSVIndex(file)
                               ELSE loadRecipientsFromCSVBulk(file)]
  /\ UNCHANGED <<variant, stats, phase, recipients, binder, buttons, i, task,
                 pauseAt, results, returned, now, runs, served, order,
                 lastSent, resolvedAt, call, report, summary, normalized>>

\* Ingestion: a file is loaded, and a phone is validated by itself.
NextLoad ==
  \/ \E file \in CsvFiles : loadRecipientsFromCSV(file)
  \/ \E phone \in PhoneInputs :
       /\ normalized.fn = "none"
       /\ CallPhoneFunction("validateAndFormatPhone", phone)

SpecLoad == Init /\ [][NextLoad]_vars

(***************************************************************************)
(* The claims.                                                             *)
(***************************************************************************)
Scheduled == {k \in DOMAIN task : task[k].st # "unscheduled"}

\* The batch (0, 1, ...) of list index k.
BatchOf(k) == k \div batchSize

\* The transport answers after which sendMessage raises inside its try.
FailingBehaviours == {"nomessages", "emptymessages", "http", "httpempty", "network"}

\* C1, as stated: a run issues exactly one transport send per input
\* recipient, never two, and returns exactly one outcome per recipient.
C1_OneSendPerRecipient ==
  /\ \A k \in DOMAIN task : task[k].sends <= 1
  /\ phase = "returned" =>
       /\ Len(returned) = n
       /\ \A k \in DOMAIN task : task[k].sends = 1

\* C1, amended: no recipient is dispatched twice (at most one sendMessage
\* call and at most one transport send each, a send only within a call);
\* a run that returns has called sendMessage exactly once per recipient and
\* returns exactly one outcome per recipient; and the call issued exactly
\* one transport send unless building the request raised, in which case no
\* request was sent and the recipient's outcome is a Failure.
C1_OneDispatchPerRecipient ==
  /\ \A k \in DOMAIN task :
       /\ task[k].calls <= 1
       /\ task[k].sends <= task[k].calls
  /\ phase = "returned" =>
       /\ Len(returned) = n
       /\ Len(order) = n
       /\ \A k \in DOMAIN task :
            /\ task[k].calls = 1
            /\ task[k].sends = (IF task[k].transport = "none" THEN 0 ELSE 1)
            /\ task[k].sends = 0 => ~returned[k + 1].success

\* C1's case: a run over several batches has returned, one recipient's
\* request could not be built and the others' were sent.
C1_Witness ==
  /\ phase = "returned"
  /\ n > batchSize
  /\ \E k \in DOMAIN task : task[k].sends = 0
  /\ \E k \in DOMAIN task : task[k].sends = 1 /\ k % batchSize = 0 /\ k > 0

\* C2: when a sendBulkMessages call returns, sent + failed = total.
C2_SentPlusFailedIsTotal ==
  phase = "returned" => stats.sent + stats.failed = stats.total

\* The state a sendBulkMessages call leaves: nothing dispatched yet.
JustCalled ==
  /\ runs > 0
  /\ order = <<>>
  /\ \A k \in DOMAIN task : task[k].st \in {"unscheduled", "sleeping"}

\* C3: at the start of each call the statistics are reset: total is the
\* recipient count, and sent, failed and the error log are zeroed.
C3_StatsResetAtStart ==
  JustCalled =>
    stats = [total |-> n, sent |-> 0, failed |-> 0, errors |-> <<>>]

\* C4: a transport failure never interrupts the run.  The callback whose
\* request failed ends with a Failure result (it does not raise), the call
\* is rejected only by a callback that raised before calling sendMessage
\* (the parameter binder), a running call always has a timer or a request
\* pending, and a call that returns has dispatched every recipient and
\* returns the complete sequence, whose Failures are exactly the recipients
\* whose send failed.
C4_FailuresDoNotInterrupt ==
  /\ \A k \in DOMAIN task :
       task[k].transport \in FailingBehaviours =>
         task[k].st = "done" /\ ~task[k].result.success
  /\ phase = "rejected" =>
       \E k \in DOMAIN task : task[k].st = "threw" /\ task[k].calls = 0
  /\ phase = "running" => Live(task) # {} \/ pauseAt >= 0
  /\ phase = "returned" =>
       /\ Len(returned) = n
       /\ \A k \in DOMAIN task :
            /\ task[k].calls = 1
            /\ ~returned[k + 1].success <=>
                 (task[k].transport \in FailingBehaviours \/ task[k].sends = 0)

\* C4's case: a request of the first batch failed in the transport, a
\* request of a later batch was sent and succeeded, and the run returned.
C4_Witness ==
  /\ phase = "returned"
  /\ \E k \in DOMAIN task :
       /\ BatchOf(k) = 0
       /\ task[k].transport = "http"
       /\ \E j \in DOMAIN task :
            BatchOf(j) > 0 /\ task[j].transport = "ok" /\ returned[j + 1].success

\* The step issues the request of callback k.
Issues(k) ==
  /\ k \in DOMAIN task
  /\ k \in DOMAIN task'
  /\ task'[k].sends > task[k].sends

\* The time by which the batch before the one under way had resolved:
\* resolvedAt while it is kept, which is until the first request of the
\* batch under way is issued; for the requests after that one, the end of
\* the millisecond from whose start the time is counted, within which the
\* batch resolved.
ResolvedBy == IF resolvedAt >= 0 THEN resolvedAt ELSE Millisecond - 1

\* C5: no request of batch N+1 is issued before every callback of batch N
\* (and of the batches before it) has resolved, nor earlier than 1000 ms
\* after batch N's Promise.all resolved.
C5_BatchesStrictlyOrdered ==
  [][\A k \in DOMAIN task :
       (Issues(k) /\ BatchOf(k) > 0) =>
         /\ \A j \in DOMAIN task :
              BatchOf(j) < BatchOf(k) => task[j].st = "done"
         /\ k = BatchOf(k) * batchSize => resolvedAt >= 0
         /\ now >= ResolvedBy + Ms(interBatchPause)]_vars

\* C5's case: a request of the second batch has been issued, all callbacks
\* of the first having resolved.
C5_Witness ==
  \E k \in DOMAIN task :
    /\ BatchOf(k) = 1
    /\ task[k].st = "inflight"
    /\ \A j \in DOMAIN task : BatchOf(j) = 0 => task[j].st = "done"

\* C6: at most maxMessagesPerSecond requests are issued in any 1000 ms, and
\* never two requests less than messageDelay apart.  (The requests of one
\* batch are those that can share a window of 1000 ms: the batch before was
\* issued more than 1000 ms earlier.)
C6_CeilingAndSpacing ==
  [][/\ Cardinality({k \in BatchIdx(i, n) : task[k].sends > 0})
          <= maxMessagesPerSecond
     /\ \A k \in DOMAIN task :
          (Issues(k) /\ lastSent >= 0) => now - lastSent >= messageDelay]_vars

\* The callbacks of the batches started so far.
Started == {k \in DOMAIN task : BatchOf(k) * batchSize <= i}

\* The earliest time at which the batch of callback k can start.  For a
\* batch after the first it is the deadline of the pause's timer: 1000 ms
\* after the tick of the loop's clock from which the time is counted, the
\* last one before the batch before resolved.
Earliest(k) == IF BatchOf(k) > 0 THEN Ms(interBatchPause) ELSE 0

\* The delays handed to sleep and the timers set for them.
C7_DelaysAndTimers ==
  /\ 2 * messageDelay = Ms(25)
  /\ Scheduled = Started
  /\ \A k \in Scheduled :
       LET offset == BatchOf(k) * batchSize
           j == k - offset
       IN  /\ task[k].delay = (offset + j) * messageDelay
           /\ (j = 1 /\ (k - 1) \in Scheduled) =>
                task[k].delay - task[k - 1].delay = messageDelay
  /\ \A k \in DOMAIN task :
       task[k].st = "sleeping" =>
         task[k].wakeAt >= Earliest(k) + TimerDelay(task[k].delay)

\* The step starts callback k: batch.map calls it, and it sets its timer.
Starts(k) ==
  /\ k \in DOMAIN task'
  /\ task'[k].st = "sleeping"
  /\ k \in DOMAIN task => task[k].st = "unscheduled"

\* The tick of the loop's clock before the batch of callback k starts, at
\* the step that starts it: that before the call for the first batch, from
\* which the time is counted, and that before the pause's callback runs for
\* a later one.
BatchStart(k) == IF BatchOf(k) > 0 THEN LoopNow(now) ELSE 0

\* C7: the delay handed to sleep for batch index j of the batch at offset i
\* is (i + j) * messageDelay, messageDelay being 12.5 ms, so the delays of
\* indices 0 and 1 of a batch differ by exactly messageDelay; the callbacks
\* of a batch set their timers when the batch starts, all of them and no
\* callback of a later batch; a timer is due the whole milliseconds of its
\* delay after the batch's start, as the loop's clock gives it when the
\* callback is called, and no request is issued before its timer is due;
\* and no request of a batch after the first is issued before the batches
\* before it completed and the 1000 ms of the pause passed on the loop's
\* clock.
C7_StaggerDelay ==
  /\ []C7_DelaysAndTimers
  /\ [][\A k \in DOMAIN task' :
          Starts(k) =>
            \E ticks \in 0..MaxTicks :
              task'[k].wakeAt = BatchStart(k) + Millisecond * ticks
                                + TimerDelay(task'[k].delay)]_vars
  /\ [][\A k \in DOMAIN task :
          Issues(k) =>
            /\ now >= task[k].wakeAt
            /\ now >= Earliest(k) + TimerDelay(task[k].delay)
            /\ \A j \in DOMAIN task :
                 BatchOf(j) < BatchOf(k) => task[j].st = "done"]_vars

\* C7's case: the requests of indices 0 and 1 of the second batch have been
\* issued and are in flight.
C7_Witness ==
  /\ n > batchSize + 1
  /\ task[batchSize].st = "inflight"
  /\ task[batchSize + 1].st = "inflight"

\* Whether the dispatch of list index a completed before that of b.
CompletedBefore(a, b) ==
  \E p, q \in 1..Len(order) : p < q /\ order[p] = a /\ order[q] = b

\* C8, as stated: the returned sequence is batch-major and, within a batch,
\* in the order in which the dispatches completed; batches being strictly
\* ordered, that is the order of completion.
C8_CompletionOrder ==
  phase = "returned" =>
    /\ Len(returned) = Len(order)
    /\ \A p \in 1..Len(returned) : returned[p] = task[order[p]].result

\* C8, amended: the returned sequence is batch-major and, within a batch, in
\* the order of the input list, whatever the order of completion: position
\* p holds the result of the callback of list index p - 1, and every
\* outcome of batch N completed before every outcome of batch N+1.
C8_BatchMajorInputOrder ==
  phase = "returned" =>
    /\ Len(returned) = n
    /\ \A p \in 1..Len(returned) : returned[p] = task[p - 1].result
    /\ \A a, b \in DOMAIN task : BatchOf(a) < BatchOf(b) => CompletedBefore(a, b)

\* C8's case: a run of more than one batch returned, and within a batch the
\* dispatch of a later recipient completed before that of an earlier one.
C8_Witness ==
  /\ phase = "returned"
  /\ n > batchSize
  /\ \E a, b \in DOMAIN task :
       a < b /\ BatchOf(a) = BatchOf(b) /\ CompletedBefore(b, a)

\* The number of positions of sequence sq that satisfy Test.
Count(sq, Test(_)) == Cardinality({p \in 1..Len(sq) : Test(sq[p])})

\* The list indices whose outcome is a Failure, in the order of completion.
FailedInOrder == SelectSeq(order, LAMBDA k : ~task[k].result.success)

\* C9: after a run on a freshly constructed sender, sent is the number of
\* Success outcomes, failed the number of Failure outcomes, and the error
\* log holds one record per failed recipient, with that recipient's phone
\* and the error of its own outcome (in the order of completion).
C9_NoLostUpdate ==
  (phase = "returned" /\ runs = 1) =>
    /\ stats.sent = Count(returned, LAMBDA r : r.success)
    /\ stats.failed = Count(returned, LAMBDA r : ~r.success)
    /\ Len(stats.errors) = stats.failed
    /\ \A q \in 1..Len(stats.errors) :
         /\ q <= Len(FailedInOrder)
         /\ stats.errors[q].phone = recipients[FailedInOrder[q] + 1].phone
         /\ stats.errors[q].error = returned[FailedInOrder[q] + 1].error
         /\ returned[FailedInOrder[q] + 1].to = stats.errors[q].phone

\* C9's case: the first run returned; two dispatches of one batch failed
\* with different errors and completed in the reverse of their order in the
\* list, and another dispatch succeeded.
C9_Witness ==
  /\ phase = "returned"
  /\ runs = 1
  /\ stats.sent >= 1
  /\ \E a, b \in DOMAIN task :
       /\ a < b
       /\ BatchOf(a) = BatchOf(b)
       /\ CompletedBefore(b, a)
       /\ ~task[a].result.success
       /\ ~task[b].result.success
       /\ task[a].result.error # task[b].result.error

\* C10: sendMessage never rejects: for every recipient value, parameter
\* list, button list and transport behaviour the call settles fulfilled,
\* with a Success or a Failure for the recipient it was called with.
C10_SendMessageNeverRejects ==
  call.state = "settled" =>
    /\ ~call.settlement.rejected
    /\ call.settlement.value.to = call.to
    /\ call.settlement.value.success =>
         call.settlement.value.error = "absent"
    /\ ~call.settlement.value.success =>
         /\ call.settlement.value.messageId = "absent"
         /\ call.settlement.value.error \in {"response.data", "error.message"}

\* C10's case: sendMessage raised while building the request (no phone
\* string, in the bulk variant) and settled with a Failure.
C10_Witness ==
  /\ call.state = "settled"
  /\ variant = "bulk"
  /\ call.to = Undefined
  /\ call.transport = "none"
  /\ ~call.settlement.value.success

\* C11: sendMessage returns a Success only when the response carries a
\* message id: a 2xx response with no body, or with no id in its first
\* message, yields a Failure, so every Success has a defined messageId.
C11_SuccessHasMessageId ==
  (call.state = "settled" /\ call.settlement.value.success) =>
    /\ call.transport = "ok"
    /\ call.settlement.value.messageId # "undefined"

\* Whether sequence a is the beginning of sequence b.
IsPrefix(a, b) == Len(a) <= Len(b) /\ SubSeq(b, 1, Len(a)) = a

\* C12: during a run the statistics only grow: sent and failed never
\* decrease, the error log is only appended to, and sent + failed never
\* exceeds total.
C12_StatsOnlyGrow ==
  /\ [](phase = "running" => stats.sent + stats.failed <= stats.total)
  /\ [][/\ stats'.sent >= stats.sent
        /\ stats'.failed >= stats.failed
        /\ IsPrefix(stats.errors, stats'.errors)]_vars

\* Every recipient of the list was handed to sendMessage and its callback
\* has returned.
AllDispatched ==
  \A k \in DOMAIN task : task[k].calls = 1 /\ task[k].st = "done"

\* C13, as stated: if every timer fires and every transport call settles, a
\* run eventually returns, after every recipient has been dispatched.
C13_RunReturns ==
  (phase = "running") ~> (phase = "returned" /\ AllDispatched)

\* C13, amended: under the same condition a run eventually settles: it
\* returns, after every recipient has been dispatched, unless
\* getTemplateParams throws for a recipient, in which case it rejects; a run
\* without getTemplateParams always returns.
C13_RunSettles ==
  /\ (phase = "running")
       ~> (phase = "returned" \/ (phase = "rejected" /\ binder = "given"))
  /\ [](phase = "returned" => AllDispatched)
  /\ [](phase = "rejected" => \E k \in DOMAIN task : task[k].st = "threw")

\* C13's case: a run over several batches, in which a request failed, has
\* returned with every recipient dispatched.
C13_Witness ==
  /\ phase = "returned"
  /\ n > batchSize
  /\ AllDispatched
  /\ \E k \in DOMAIN task : ~task[k].result.success

\* C14: the report saveReport built holds a copy of the statistics: its
\* stats stay as they stood when it was built, whatever a later
\* sendBulkMessages call on the same sender does.
C14_ReportIsSnapshot ==
  report.built => ReportStats(report) = report.file.stats

\* C15: showSummary never computes a percentage by dividing by a total of
\* zero.
C15_SummaryGuardsZeroTotal ==
  summary.shown => summary.sent.divisor # 0 /\ summary.failed.divisor # 0

DigitChars == {Digits[d] : d \in 1..Len(Digits)}
AllDigits(chars) == \A p \in 1..Len(chars) : chars[p] \in DigitChars

\* A valid local mobile number: ten digits, the first a 3.
IsLocalMobile(v) ==
  IsString(v) /\ Len(v.s) = 10 /\ AllDigits(v.s) /\ v.s[1] = "3"

\* A valid prefixed mobile number: 57, then a valid local number.
IsPrefixedMobile(v) ==
  /\ IsString(v)
  /\ Len(v.s) = 12
  /\ AllDigits(v.s)
  /\ SubSeq(v.s, 1, 3) = <<"5", "7", "3">>

\* C16: formatPhoneNumber and validateAndFormatPhone of src/index.js return
\* 57 followed by x for a valid local mobile number x, return a valid
\* prefixed number unchanged, and applied to their own result for such a
\* number return it again.
C16_PrefixOnceAndIdempotent ==
  (variant = "index" /\ normalized.fn # "none") =>
    /\ IsLocalMobile(normalized.arg) =>
         normalized.result = Str(<<"5", "7">> \o normalized.arg.s)
    /\ IsPrefixedMobile(normalized.arg) => normalized.result = normalized.arg
    /\ (normalized.applications > 1
          /\ (IsLocalMobile(normalized.first) \/ IsPrefixedMobile(normalized.first))) =>
         normalized.result = normalized.arg

\* C16's case: validateAndFormatPhone, applied to the prefixed number it
\* made of a local one, returned it again.
C16_Witness ==
  /\ variant = "index"
  /\ normalized.fn = "validateAndFormatPhone"
  /\ normalized.applications = 2
  /\ IsLocalMobile(normalized.first)
  /\ normalized.result = Str(<<"5", "7">> \o normalized.first.s)

\* Whether a phone cell passes shape validation: once trimmed and cleaned
\* it is a valid local or prefixed mobile number.
PassesShape(chars) ==
  LET v == Str(Clean(Trim(chars)))
  IN  IsLocalMobile(v) \/ IsPrefixedMobile(v)

\* The phone cells of the data lines of the loaded file that have the
\* TELEFONO column, in the order of the file.
PhoneCells ==
  LET lines == SelectSeq(loaded.file.lines, LAMBDA line : ~IsBlankLine(line))
      col == IF lines = <<>> THEN 0 ELSE IndexOf(TrimmedCells(lines[1]), Telefono) + 1
      rows == IF col = 0 THEN <<>>
              ELSE SelectSeq(Tail(lines), LAMBDA line : Len(line) >= col)
  IN  [p \in 1..Len(rows) |-> rows[p][col]]

\* C17: validateAndFormatPhone returns false for every input that fails
\* shape validation (wrong length, wrong leading digit, a non-numeric
\* character after cleaning); loadRecipientsFromCSV leaves the rows with
\* such a phone out; and every loaded phone is 12 digits starting with 573.
C17_InvalidPhonesRejected ==
  variant = "index" =>
    /\ (normalized.fn = "validateAndFormatPhone"
          /\ ~(IsString(normalized.arg) /\ PassesShape(normalized.arg.s))) =>
         normalized.result = False
    /\ loaded.done =>
         /\ \A p \in 1..Len(loaded.recipients) :
              IsPrefixedMobile(loaded.recipients[p].phone)
         /\ Len(loaded.recipients)
              = Len(SelectSeq(PhoneCells, LAMBDA cell : PassesShape(cell)))

\* C18: formatPhoneNumber of src/src/whatsapp-bulk-sender.js adds the
\* prefix 57 only when it is absent: a phone whose cleaned value already
\* starts with 57 is returned cleaned and otherwise unchanged.
C18_PrefixOnlyWhenAbsent ==
  (/\ variant = "bulk"
   /\ normalized.fn = "formatPhoneNumber"
   /\ IsString(normalized.arg)
   /\ StartsWith(Clean(normalized.arg.s), <<"5", "7">>)) =>
    normalized.result = Str(Clean(normalized.arg.s))

\* A callback whose stagger delay has elapsed, the requests of the lower
\* indices of its batch having been issued, can issue its own request,
\* whatever the state of those requests.
DueCanBeIssued ==
  \A k \in DOMAIN task :
    (/\ task[k].st = "sleeping"
     /\ now >= task[k].wakeAt
     /\ \A j \in DOMAIN task :
          (BatchOf(j) = BatchOf(k) /\ j < k) => task[j].st # "sleeping")
    => ENABLED TimerFires(k)

\* C19: the dispatches of a batch are not serialized: once the stagger
\* delay of a callback has elapsed and the requests of the lower indices of
\* its batch have been issued, its own request can be issued, whether or
\* not any of those has been answered; and no request is issued before its
\* own delay has elapsed.
C19_BatchNotSerialized ==
  /\ []DueCanBeIssued
  /\ [][\A k \in DOMAIN task :
          Issues(k) => (task[k].st = "sleeping" /\ now >= task[k].wakeAt)]_vars

\* C19's case: two requests of one batch are in flight at once.
C19_Witness ==
  \E j, k \in DOMAIN task :
    /\ j < k
    /\ BatchOf(j) = BatchOf(k)
    /\ task[j].st = "inflight"
    /\ task[k].st = "inflight"

\* The step in which the last callback of the last batch of a run returns
\* its result, so that the batch's Promise.all resolves.
LastBatchResolves ==
  /\ phase = "running"
  /\ i + batchSize >= n
  /\ \E k \in BatchIdx(i, n) : task[k].st # "done"
  /\ \A k \in BatchIdx(i, n) : task'[k].st = "done"

\* C20: the 1000 ms pause is taken only when more batches remain: a pause
\* is pending only while recipients remain beyond the current batch, and
\* when the last batch resolves (also when the count is a multiple of the
\* batch size, or no more than one batch) the call returns in that very
\* step, with no pause pending.
C20_PauseOnlyBetweenBatches ==
  [][/\ pauseAt' >= 0 => i' + batchSize < Len(recipients')
     /\ LastBatchResolves => (phase' = "returned" /\ pauseAt' = -1)]_vars

\* C20's case: a run whose recipient count is a multiple of the batch size,
\* over more than one batch, has returned, and no pause is pending.
C20_Witness ==
  /\ phase = "returned"
  /\ n > batchSize /\ n % batchSize = 0
  /\ AllDispatched
  /\ pauseAt = -1

\* C21: the returned sequence is aligned with the input list: position j
\* holds the outcome of the dispatch of the recipient at position j, with
\* that recipient's phone as its `to`, whatever the order in which the
\* dispatches completed; the records the run added to the error log are
\* those of its failed recipients in the order of completion.
C21_ResultsAlignedWithInput ==
  phase = "returned" =>
    /\ Len(returned) = n
    /\ \A j \in 1..n :
         /\ returned[j] = task[j - 1].result
         /\ returned[j].to = recipients[j].phone
    /\ LET base == Len(stats.errors) - Len(FailedInOrder)
       IN  /\ base >= 0
           /\ \A q \in 1..Len(FailedInOrder) :
                /\ stats.errors[base + q].phone
                     = recipients[FailedInOrder[q] + 1].phone
                /\ stats.errors[base + q].error
                     = task[FailedInOrder[q]].result.error

\* C21's case: a run has returned; two recipients of one batch failed, the
\* later one of the list first, so that the error log and the returned
\* sequence list them in opposite orders.
C21_Witness ==
  /\ phase = "returned"
  /\ Len(stats.errors) = Len(FailedInOrder)
  /\ \E a, b \in DOMAIN task :
       /\ a < b
       /\ CompletedBefore(b, a)
       /\ ~returned[a + 1].success
       /\ ~returned[b + 1].success
       /\ returned[a + 1].to # returned[b + 1].to

\* C22: send-time normalization is the identity on every address accepted
\* at ingestion: formatPhoneNumber, applied to what validateAndFormatPhone
\* returned for a phone it accepts, returns it unchanged.
C22_FormatKeepsAcceptedAddress ==
  (/\ normalized.fn = "formatPhoneNumber"
   /\ normalized.applications = 1
   /\ validateAndFormatPhone(normalized.first) # False
   /\ normalized.arg = validateAndFormatPhone(normalized.first)) =>
    normalized.result = normalized.arg

\* The callbacks in which getTemplateParams threw.
Threw(tk) == {k \in DOMAIN tk : tk[k].st = "threw"}

\* C23: an exception of getTemplateParams for a recipient is not captured
\* as a Failure: the call rejects and stays rejected, it returns no outcome
\* sequence, sendMessage is not called for that recipient and nothing is
\* recorded for it, no batch after that recipient's batch is started, and
\* the dispatches of the other recipients of the batch that complete are
\* folded into the statistics as usual.
C23_BinderExceptionRejectsRun ==
  [][/\ phase' = "rejected" => (returned' = <<>> /\ Threw(task') # {})
     /\ \A k \in Threw(task') :
          /\ phase' = "rejected"
          /\ task'[k].calls = 0
          /\ task'[k].sends = 0
          /\ \A p \in 1..Len(order') : order'[p] # k
          /\ \A j \in DOMAIN task' :
               BatchOf(j) > BatchOf(k) => task'[j].st = "unscheduled"
     /\ (phase' = "rejected" /\ runs' = 1) =>
          /\ stats'.sent + stats'.failed = Len(order')
          /\ Len(stats'.errors) = stats'.failed
     /\ (phase = "rejected" /\ runs' = runs) => phase' = "rejected"]_vars

\* C23's case: getTemplateParams threw for a recipient of the first of
\* several batches; a later recipient of that batch was dispatched all the
\* same and is counted in the statistics; the next batch has not started.
C23_Witness ==
  /\ phase = "rejected"
  /\ n > batchSize
  /\ \E k \in Threw(task), j \in DOMAIN task :
       /\ BatchOf(k) = 0
       /\ BatchOf(j) = 0
       /\ k < j
       /\ task[j].st = "done"
       /\ stats.sent + stats.failed >= 1
  /\ Live(task) = {}

====
